---- MODULE Spec2Model ----
(***************************************************************************)
(* Model of the two artifacts of the repository:                           *)
(*   - src/helpers/config.js: the site configuration module (a default     *)
(*     export `config` and a named export `SavedTweets`), as it is loaded  *)
(*     and read by the importing modules of one process;                   *)
(*   - content/posts/redux-with-react-native-hooks.md: the notes store of  *)
(*     the article (action creators addnote/deletenote, notesReducer, the  *)
(*     redux store that dispatches to it).                                 *)
(***************************************************************************)
EXTENDS Integers, Sequences, FiniteSets, TLC

\* Number of importing modules (consumers of config.js) in the process.
NumConsumers == 2
\* Cap on the noteID counter: addnote is not dispatched beyond it.
MaxNoteID == 4

Consumers == 1..NumConsumers

VARIABLES
    evaluated,    \* has the body of config.js been evaluated in this process
    instances,    \* how many times the body of config.js has been evaluated
    config,       \* the object bound to `config` (the default export)
    SavedTweets,  \* the object bound to the named export `SavedTweets`
    imported,     \* per consumer: the module instance its import is bound to (0: none)
    got,          \* per consumer: the result of its last read
    noteID,       \* the module-level counter of notesApp.js
    state,        \* the redux store's current state (the array last returned)
    action,       \* the action last dispatched
    argBefore,    \* the array passed to the last notesReducer call, before the call
    argAfter      \* the same array object, after the call

configVars == <<evaluated, instances, config, SavedTweets, imported, got>>
notesVars == <<noteID, state, action, argBefore, argAfter>>
vars == <<evaluated, instances, config, SavedTweets, imported, got,
          noteID, state, action, argBefore, argAfter>>

-----------------------------------------------------------------------------
(* src/helpers/config.js *)

\* configSource with the value of kofi left empty.
configSource_emptyKofi ==
    << <<"siteTitle", "Aman Mittal">>,
       <<"siteUrl", "https://amanhimself.dev">>,
       <<"description", "Software engineer and technical content writer.">>,
       <<"username", "Alec Campbell">>,
       <<"shortname", "@fu4303">>,
       <<"newsletter", "https://amanhimself.substack.com/">>,
       <<"github", "https://github.com/fu4303">>,
       <<"twitter", "https://twitter.com/fu4303">>,
       <<"medium", "https://medium.com/@amanhimself">>,
       <<"devto", "https://dev.to/fu4303">>,
       <<"hashnode", "https://hashnode.com/@fu4303">>,
       <<"instagram", "https://www.instagram.com/amanhimselfcodes/">>,
       <<"hundredDaysOfCodeBot", "https://twitter.com/_100Daysofcode">>,
       <<"mailAddress", "mailto:amanmittal.work@gmail.com">>,
       <<"kofi", "">>,
       <<"twitterBotRepo", "https://github.com/freeCodeCamp/100DaysOfCode-twitter-bot">>,
       <<"goodreads", "https://www.goodreads.com/author/show/17657541.Aman_Mittal">>,
       <<"subscribersCount", "1200+">> >>

\* configSource with the github link written as a bare handle.
configSource_githubHandle ==
    << <<"siteTitle", "Aman Mittal">>,
       <<"siteUrl", "https://amanhimself.dev">>,
       <<"description", "Software engineer and technical content writer.">>,
       <<"username", "Alec Campbell">>,
       <<"shortname", "@fu4303">>,
       <<"newsletter", "https://amanhimself.substack.com/">>,
       <<"github", "github.com/fu4303">>,
       <<"twitter", "https://twitter.com/fu4303">>,
       <<"medium", "https://medium.com/@amanhimself">>,
       <<"devto", "https://dev.to/fu4303">>,
       <<"hashnode", "https://hashnode.com/@fu4303">>,
       <<"instagram", "https://www.instagram.com/amanhimselfcodes/">>,
       <<"hundredDaysOfCodeBot", "https://twitter.com/_100Daysofcode">>,
       <<"mailAddress", "mailto:amanmittal.work@gmail.com">>,
       <<"kofi", "https://ko-fi.com/amanhimself">>,
       <<"twitterBotRepo", "https://github.com/freeCodeCamp/100DaysOfCode-twitter-bot">>,
       <<"goodreads", "https://www.goodreads.com/author/show/17657541.Aman_Mittal">>,
       <<"subscribersCount", "1200+">> >>

\* The object literal of lines 1-20, as written: (key, value) in source order.
configSource ==
    << <<"siteTitle", "Aman Mittal">>,
       <<"siteUrl", "https://amanhimself.dev">>,
       <<"description", "Software engineer and technical content writer.">>,
       <<"username", "Alec Campbell">>,
       <<"shortname", "@fu4303">>,
       <<"newsletter", "https://amanhimself.substack.com/">>,
       <<"github", "https://github.com/fu4303">>,
       <<"twitter", "https://twitter.com/fu4303">>,
       <<"medium", "https://medium.com/@amanhimself">>,
       <<"devto", "https://dev.to/fu4303">>,
       <<"hashnode", "https://hashnode.com/@fu4303">>,
       <<"instagram", "https://www.instagram.com/amanhimselfcodes/">>,
       <<"hundredDaysOfCodeBot", "https://twitter.com/_100Daysofcode">>,
       <<"mailAddress", "mailto:amanmittal.work@gmail.com">>,
       <<"kofi", "https://ko-fi.com/amanhimself">>,
       <<"twitterBotRepo", "https://github.com/freeCodeCamp/100DaysOfCode-twitter-bot">>,
       <<"goodreads", "https://www.goodreads.com/author/show/17657541.Aman_Mittal">>,
       <<"subscribersCount", "1200+">> >>

\* SavedTweetsSource with the first link written without its scheme.
SavedTweetsSource_noScheme ==
    << <<"twoMillionViews",
         "twitter.com/amanhimself/status/1285554115464982528">>,
       <<"topContributorFreeCodeCamp2018",
         "https://www.freecodecamp.org/news/announcing-our-freecodecamp-2018-top-contributor-award-winners-861da08a77e1/">> >>

\* The object literal of lines 22-26.
SavedTweetsSource ==
    << <<"twoMillionViews",
         "https://twitter.com/amanhimself/status/1285554115464982528">>,
       <<"topContributorFreeCodeCamp2018",
         "https://www.freecodecamp.org/news/announcing-our-freecodecamp-2018-top-contributor-award-winners-861da08a77e1/">> >>

\* Evaluation of a JavaScript object literal: one property per distinct key,
\* a key written twice keeps the value written last.
ObjectLiteral(pairs) ==
    [k \in {pairs[i][1] : i \in 1..Len(pairs)} |->
        LET last == CHOOSE i \in 1..Len(pairs) :
                        /\ pairs[i][1] = k
                        /\ \A j \in (i+1)..Len(pairs) : pairs[j][1] # k
        IN  pairs[last][2]]

\* An object with no property: what the bindings hold before evaluation.
NoObject == [k \in {} |-> ""]

\* Property names a consumer asks for: the ones the module defines and one it
\* does not.
PropertyNames == {configSource[i][1] : i \in 1..Len(configSource)} \cup {"author"}

InitConfig ==
    /\ evaluated = FALSE
    /\ instances = 0
    /\ config = NoObject
    /\ SavedTweets = NoObject
    /\ imported = [c \in Consumers |-> 0]
    /\ got = [c \in Consumers |-> [kind |-> "none"]]

\* Import that evaluates the module body anew for every importer.
Import_reevaluates(c) ==
    /\ imported[c] = 0
    /\ evaluated' = TRUE
    /\ instances' = instances + 1
    /\ config' = ObjectLiteral(configSource)
    /\ SavedTweets' = ObjectLiteral(SavedTweetsSource)
    /\ imported' = [imported EXCEPT ![c] = instances']
    /\ UNCHANGED got
    /\ UNCHANGED notesVars

\* Import that binds the importer without ever evaluating the module body.
Import_unevaluated(c) ==
    /\ imported[c] = 0
    /\ imported' = [imported EXCEPT ![c] = 1]
    /\ UNCHANGED <<evaluated, instances, config, SavedTweets, got>>
    /\ UNCHANGED notesVars

\* `import config, { SavedTweets } from '.../config'` in consumer c.  The
\* module body is evaluated on the first import of the process and its
\* bindings are shared by every later import.
Import(c) ==
    /\ imported[c] = 0
    /\ IF evaluated
         THEN UNCHANGED <<evaluated, instances, config, SavedTweets>>
         ELSE /\ evaluated' = TRUE
              /\ instances' = instances + 1
              /\ config' = ObjectLiteral(configSource)
              /\ SavedTweets' = ObjectLiteral(SavedTweetsSource)
    /\ imported' = [imported EXCEPT ![c] = instances']
    /\ UNCHANGED got
    /\ UNCHANGED notesVars

\* Outcome of reading an imported binding: a binding of a module whose body
\* has not run is uninitialized and reading it throws.
ReadOutcome == IF evaluated THEN "ok" ELSE "ReferenceError"

\* Consumer c reads the default export: the whole configuration object.
ReadDefault(c) ==
    /\ imported[c] # 0
    /\ got' = [got EXCEPT ![c] =
                 [kind |-> "default", outcome |-> ReadOutcome, value |-> config]]
    /\ UNCHANGED <<evaluated, instances, config, SavedTweets, imported>>
    /\ UNCHANGED notesVars

\* Consumer c reads the named export SavedTweets.
ReadSavedTweets(c) ==
    /\ imported[c] # 0
    /\ got' = [got EXCEPT ![c] =
                 [kind |-> "SavedTweets", outcome |-> ReadOutcome, value |-> SavedTweets]]
    /\ UNCHANGED <<evaluated, instances, config, SavedTweets, imported>>
    /\ UNCHANGED notesVars

\* Consumer c reads one property by name (config.siteTitle): a property the
\* object does not have reads as undefined, without an error.
ReadProperty(c, k) ==
    /\ imported[c] # 0
    /\ got' = [got EXCEPT ![c] =
                 [kind |-> "property", outcome |-> ReadOutcome, key |-> k,
                  defined |-> k \in DOMAIN config,
                  value |-> IF k \in DOMAIN config THEN config[k] ELSE ""]]
    /\ UNCHANGED <<evaluated, instances, config, SavedTweets, imported>>
    /\ UNCHANGED notesVars

NextConfig ==
    \E c \in Consumers :
        \/ Import(c)
        \/ ReadDefault(c)
        \/ ReadSavedTweets(c)
        \/ \E k \in PropertyNames : ReadProperty(c, k)

-----------------------------------------------------------------------------
(* content/posts/redux-with-react-native-hooks.md: src/redux/notesApp.js *)

ADD_NOTE == "ADD_NOTE"
DELETE_NOTE == "DELETE_NOTE"

\* The action redux dispatches when the store is created; no case of the
\* reducer names it.
INIT_ACTION == "@@redux/INIT"

\* The notes a user saves.
NoteValues == {"milk", "eggs"}

\* addnote that reads the counter without incrementing it.
addnote_noIncrement(note) ==
    [action |-> [type |-> ADD_NOTE, id |-> noteID, note |-> note],
     noteID |-> noteID]

\* addnote(note): the action it returns and the counter it leaves (noteID++).
addnote(note) ==
    [action |-> [type |-> ADD_NOTE, id |-> noteID, note |-> note],
     noteID |-> noteID + 1]

deletenote(id) == [type |-> DELETE_NOTE, payload |-> id]

\* lodash.remove, the scanning loop from position index on: the elements the
\* predicate returns truthy for, in order, and the indexes they stand at.
RECURSIVE removeScan(_, _, _)
removeScan(array, predicate, index) ==
    IF index > Len(array)
      THEN [result |-> <<>>, indexes |-> {}]
      ELSE LET rest == removeScan(array, predicate, index + 1)
           IN  IF predicate[array[index]]
                 THEN [result |-> <<array[index]>> \o rest.result,
                       indexes |-> {index} \cup rest.indexes]
                 ELSE rest

\* lodash basePullAt: the array with the elements at `indexes` spliced out.
RECURSIVE basePullAt(_, _)
basePullAt(array, indexes) ==
    IF array = <<>>
      THEN <<>>
      ELSE LET front == basePullAt(SubSeq(array, 1, Len(array) - 1), indexes)
           IN  IF Len(array) \in indexes
                 THEN front
                 ELSE Append(front, array[Len(array)])

\* remove that returns what is left of the array instead of what it removed.
remove_returnsRemaining(array, predicate) ==
    LET scan == removeScan(array, predicate, 1)
    IN  [returned |-> basePullAt(array, scan.indexes),
         array |-> basePullAt(array, scan.indexes)]

\* lodash.remove(array, predicate): removes from `array`, in place, every
\* element the predicate returns truthy for and returns the removed elements.
\*   returned: the new array it returns;  array: the argument after the call.
remove(array, predicate) ==
    LET scan == removeScan(array, predicate, 1)
    IN  [returned |-> scan.result, array |-> basePullAt(array, scan.indexes)]

\* notesReducer that puts the new note in front of the list.
notesReducer_prepends(st, act) ==
    CASE act.type = ADD_NOTE ->
           [returned |-> << [id |-> act.id, note |-> act.note] >> \o st,
            state |-> st]
      [] act.type = DELETE_NOTE ->
           LET deletedNewArray ==
                   remove(st, [obj \in {st[i] : i \in 1..Len(st)} |->
                                   obj.id # act.payload])
           IN  [returned |-> deletedNewArray.returned,
                state |-> deletedNewArray.array]
      [] OTHER ->
           [returned |-> st, state |-> st]

\* notesReducer(state, action).
\*   returned: the value it returns;  state: the array passed in, after the call.
notesReducer(st, act) ==
    CASE act.type = ADD_NOTE ->
           [returned |-> st \o << [id |-> act.id, note |-> act.note] >>,
            state |-> st]
      [] act.type = DELETE_NOTE ->
           LET deletedNewArray ==
                   remove(st, [obj \in {st[i] : i \in 1..Len(st)} |->
                                   obj.id # act.payload])
           IN  [returned |-> deletedNewArray.returned,
                state |-> deletedNewArray.array]
      [] OTHER ->
           [returned |-> st, state |-> st]

\* createStore(notesReducer): the reducer has run once, on the initial state
\* (an empty array), for redux's own initial action.
InitNotes ==
    /\ noteID = 0
    /\ state = <<>>
    /\ action = [type |-> INIT_ACTION]
    /\ argBefore = <<>>
    /\ argAfter = <<>>

\* store.dispatch(act): the store's state becomes what the reducer returns.
dispatch(act) ==
    LET r == notesReducer(state, act)
    IN  /\ state' = r.returned
        /\ action' = act
        /\ argBefore' = state
        /\ argAfter' = r.state

\* const addNote = note => dispatch(addnote(note))
addNote(note) ==
    /\ noteID < MaxNoteID
    /\ LET created == addnote(note)
       IN  /\ noteID' = created.noteID
           /\ dispatch(created.action)
    /\ UNCHANGED configVars

\* const deleteNote = id => dispatch(deletenote(id))
deleteNote(id) ==
    /\ dispatch(deletenote(id))
    /\ UNCHANGED noteID
    /\ UNCHANGED configVars

\* An action of a type the reducer has no case for.
dispatchOther ==
    /\ dispatch([type |-> INIT_ACTION])
    /\ UNCHANGED noteID
    /\ UNCHANGED configVars

NextNotes ==
    \/ \E note \in NoteValues : addNote(note)
    \/ \E id \in 0..MaxNoteID : deleteNote(id)
    \/ dispatchOther

-----------------------------------------------------------------------------
Init == InitConfig /\ InitNotes

Next == NextConfig \/ NextNotes

\* The whole repository.
Spec == Init /\ [][Next]_vars

\* The configuration module alone, the notes store idle.
SpecConfig == Init /\ [][NextConfig]_vars

\* The notes store alone, the configuration module never imported.
SpecNotes == Init /\ [][NextNotes]_vars

-----------------------------------------------------------------------------
(* Properties of the configuration module *)

\* The keys the configuration is documented to hold.
DocumentedKeys ==
    {"siteTitle", "siteUrl", "description", "username", "shortname", "github",
     "twitter", "medium", "devto", "hashnode", "instagram", "goodreads",
     "mailAddress", "newsletter", "kofi", "twitterBotRepo",
     "hundredDaysOfCodeBot", "subscribersCount"}

Letters ==
    {"a", "b", "c", "d", "e", "f", "g", "h", "i", "j", "k", "l", "m", "n", "o",
     "p", "q", "r", "s", "t", "u", "v", "w", "x", "y", "z",
     "A", "B", "C", "D", "E", "F", "G", "H", "I", "J", "K", "L", "M", "N", "O",
     "P", "Q", "R", "S", "T", "U", "V", "W", "X", "Y", "Z"}

Digits == {"0", "1", "2", "3", "4", "5", "6", "7", "8", "9"}

CharAt(s, i) == SubSeq(s, i, i)

StartsWith(s, prefix) ==
    /\ Len(s) >= Len(prefix)
    /\ SubSeq(s, 1, Len(prefix)) = prefix

\* A scheme (a letter, then letters, digits, + - .), then "://", then a host
\* that starts with a letter or a digit.
IsValidUrl(s) ==
    \E i \in 2..(Len(s) - 3) :
        /\ SubSeq(s, i, i + 2) = "://"
        /\ CharAt(s, 1) \in Letters
        /\ \A j \in 1..(i - 1) : CharAt(s, j) \in Letters \cup Digits \cup {"+", "-", "."}
        /\ CharAt(s, i + 3) \in Letters \cup Digits

\* C1: once config.js is evaluated, the default export holds every documented
\* key and every value in it is a non-empty string.
C1_ConfigHasDocumentedKeys ==
    evaluated =>
        /\ DocumentedKeys \subseteq DOMAIN config
        /\ \A k \in DOMAIN config : config[k] \in STRING /\ Len(config[k]) > 0

\* A consumer has read the whole default export of the evaluated module.
C1_Witness ==
    /\ evaluated
    /\ \E c \in Consumers :
           /\ got[c].kind = "default"
           /\ DocumentedKeys \subseteq DOMAIN got[c].value

\* C2: no load and no read changes the two exports: once evaluated they hold
\* the values they were defined with in every later state, no step changes
\* them, and every importer is bound to the one instance of the module.
C2_ConfigNeverChanges ==
    /\ [](evaluated =>
            /\ config = ObjectLiteral(configSource)
            /\ SavedTweets = ObjectLiteral(SavedTweetsSource))
    /\ [][evaluated => (config' = config /\ SavedTweets' = SavedTweets)]_vars
    /\ [](\A c, d \in Consumers :
            (imported[c] # 0 /\ imported[d] # 0) => imported[c] = imported[d])

\* Two consumers have loaded the module and both have read from it.
C2_Witness ==
    /\ \A c \in Consumers : imported[c] # 0
    /\ \E c, d \in Consumers :
           /\ c # d
           /\ got[c].kind = "default"
           /\ got[d].kind = "SavedTweets"

\* C3: SavedTweets holds exactly the entries twoMillionViews and
\* topContributorFreeCodeCamp2018, no key is written twice, and every value
\* is a syntactically valid URL.
C3_SavedTweetsShape ==
    evaluated =>
        /\ DOMAIN SavedTweets = {"twoMillionViews", "topContributorFreeCodeCamp2018"}
        /\ \A i, j \in 1..Len(SavedTweetsSource) :
               SavedTweetsSource[i][1] = SavedTweetsSource[j][1] => i = j
        /\ \A k \in DOMAIN SavedTweets : IsValidUrl(SavedTweets[k])

\* A consumer has read the named export and got its two entries.
C3_Witness ==
    \E c \in Consumers :
        /\ got[c].kind = "SavedTweets"
        /\ Cardinality(DOMAIN got[c].value) = 2

\* C4: loading the configuration yields siteTitle 'Aman Mittal' and a github
\* value that starts with 'https://github.com/', in the object and in what a
\* consumer reads from it.
C4_TitleAndGithub ==
    /\ evaluated =>
           /\ config["siteTitle"] = "Aman Mittal"
           /\ StartsWith(config["github"], "https://github.com/")
    /\ \A c \in Consumers :
           got[c].kind = "property" =>
               /\ got[c].key = "siteTitle" => got[c].value = "Aman Mittal"
               /\ got[c].key = "github" =>
                      StartsWith(got[c].value, "https://github.com/")

\* One consumer has read siteTitle and another github.
C4_Witness ==
    \E c, d \in Consumers :
        /\ got[c].kind = "property" /\ got[c].key = "siteTitle"
        /\ got[d].kind = "property" /\ got[d].key = "github"

\* C5: no read ends in an error, and a read of the default export returns the
\* complete mapping.
C5_ReadNeverFails ==
    \A c \in Consumers :
        got[c].kind # "none" =>
            /\ got[c].outcome = "ok"
            /\ got[c].kind = "default" =>
                   /\ DOMAIN got[c].value =
                          {configSource[i][1] : i \in 1..Len(configSource)}
                   /\ \A i \in 1..Len(configSource) :
                          got[c].value[configSource[i][1]] = configSource[i][2]

\* Every consumer has read; one of them a property the object does not have.
C5_Witness ==
    /\ \A c \in Consumers : got[c].kind # "none"
    /\ \E c \in Consumers : got[c].kind = "default"
    /\ \E c \in Consumers : got[c].kind = "property" /\ ~got[c].defined

-----------------------------------------------------------------------------
(* Properties of the notes store *)

Ids(notes) == {notes[i].id : i \in 1..Len(notes)}

IsNotPayload(n) == n.id # action.payload

\* C7: the array passed to notesReducer holds the same notes after the call
\* as before it.
C7_ReducerLeavesArgument == argAfter = argBefore

\* C8: after DELETE_NOTE the store holds exactly the previous notes whose id
\* differs from the payload, in their previous order, and none with that id.
C8_DeleteRemovesPayload ==
    action.type = DELETE_NOTE =>
        /\ state = SelectSeq(argBefore, IsNotPayload)
        /\ action.payload \notin Ids(state)

\* A note in the middle of three was deleted.
C8_Witness ==
    /\ action.type = DELETE_NOTE
    /\ Len(argBefore) = 3
    /\ argBefore[2].id = action.payload
    /\ Len(state) = 2

\* C9: after ADD_NOTE the store holds the previous state, in order, followed
\* by one entry with the action's id and note.
C9_AddAppendsOne ==
    action.type = ADD_NOTE =>
        /\ Len(state) = Len(argBefore) + 1
        /\ SubSeq(state, 1, Len(argBefore)) = argBefore
        /\ state[Len(state)] = [id |-> action.id, note |-> action.note]

\* A note was added to a list that held two.
C9_Witness ==
    /\ action.type = ADD_NOTE
    /\ Len(argBefore) = 2
    /\ Len(state) = 3

\* C10: no two notes of the store share an id; every id in the store was
\* handed out before (it is below noteID); noteID never decreases; a step
\* brings no id into the store that was handed out before the step.
C10_IdsUniqueNeverReused ==
    /\ [](\A i, j \in 1..Len(state) : state[i].id = state[j].id => i = j)
    /\ [](\A i \in 1..Len(state) : state[i].id < noteID)
    /\ [][/\ noteID' >= noteID
          /\ \A n \in Ids(state') \ Ids(state) : n >= noteID /\ n < noteID']_vars

\* A note was added after an earlier note had been deleted.
C10_Witness ==
    /\ action.type = ADD_NOTE
    /\ Len(state) >= 2
    /\ noteID > Len(state)

====
